---------------------------- MODULE Spec2Model ----------------------------
(***************************************************************************)
(* A model of agrc/agol-publish: the tag audit and tag fixer of            *)
(* agol-validate/flayer.py and the publishing batch of                     *)
(* agol-publish/NightStocker.py.                                           *)
(*                                                                         *)
(* Python strings are modelled as sequences of one-character strings, so   *)
(* that strip, lower, upper, split, replace and substring tests are        *)
(* computed character by character as Python computes them.                *)
(***************************************************************************)
EXTENDS Integers, Sequences, FiniteSets, TLC

(***************************************************************************)
(* Bounds of the model.                                                    *)
(***************************************************************************)
\* longest tag list of a remote item in the initial state
MaxTags == 2
\* most items in feature_service_items in the initial state of the fixer
MaxItems == 2

(***************************************************************************)
(* The state of the two programs.                                          *)
(***************************************************************************)
VARIABLES
    \* flayer.py, tag_fixer
    feature_service_items,  \* org.feature_service_items: the remote items
    fxPc,                   \* tag_fixer: "start", "loop", "reported", "raised"
    fxRun,                  \* how many times tag_fixer was called
    fxCounter,              \* tag_fixer: counter
    fxUpdated,              \* tag_fixer: updated
    failed_group_items,     \* tag_fixer: failed_group_items
    fxSummary,              \* what the final print reported, or <<>>
    fxHist,                 \* one record per item evaluated, over all runs
    \* flayer.py, tag index and duplicate tags
    account,            \* the remote account: items, who owns them, where they lie
    orgs,               \* how many org objects were constructed
    calls,              \* how many times get_users_tags_and_item_names ran
    tags_and_items,     \* org.tags_and_items, in insertion order
    sorted_tags,        \* org.sorted_tags
    duplicate_tags,     \* org.duplicate_tags, in insertion order
    enumerated,         \* the item ids of the latest enumeration
    dupFrom,            \* the keys of the index duplicate_tags was computed from
    \* NightStocker.py, batch loop
    layers,         \* the list  test  the batch loop runs over
    bPc,            \* batch loop: "loop", "done" or "aborted"
    bIdx,           \* how many entries the loop has taken
    log_entry,      \* <<>> while unassigned, else <<the list>>
    log,            \* the in-memory list  log
    updated_rows,   \* the dictionary updated_rows, in insertion order
    csvLog,         \* the rows of the CSV log file
    template,       \* the layers saved in the map of the ArcGIS Pro project
    bError,         \* the exception that ended the script, or "none"
    bHist,          \* one record per entry the loop has taken
    \* NightStocker.py, upload_layer
    upPc,       \* upload_layer: "idle", the remote call to make next,
                \* "returned" or "raised"
    upProtect,  \* the argument protect
    upInfo,     \* the argument info
    upCalls,    \* the remote calls that returned, in order, with arguments
    upResult,   \* <<>>, or <<the item id returned>>
    \* NightStocker.py, get_info
    infoPc,         \* get_info: "call", "returned" or "raised"
    infoEntry,      \* the argument entry
    infoLookup,     \* the dictionary metadata_lookup of the call
    infoResult      \* what get_info returned or raised

\* the variables of tag_fixer other than the item list
fixerVars == <<fxPc, fxRun, fxCounter, fxUpdated, failed_group_items,
               fxSummary, fxHist>>

auditVars == <<account, orgs, calls, tags_and_items, sorted_tags,
               duplicate_tags, enumerated, dupFrom>>

batchVars == <<layers, bPc, bIdx, log_entry, log, updated_rows, csvLog,
               template, bError, bHist>>

upVars == <<upPc, upProtect, upInfo, upCalls, upResult>>

infoVars == <<infoPc, infoEntry, infoLookup, infoResult>>

vars == <<feature_service_items, fixerVars, auditVars, batchVars, upVars,
          infoVars>>

(***************************************************************************)
(* Python str and list primitives.                                         *)
(***************************************************************************)
Range(s) == { s[i] : i \in DOMAIN s }

UpperAlphabet ==
    <<"A", "B", "C", "D", "E", "F", "G", "H", "I", "J", "K", "L", "M",
      "N", "O", "P", "Q", "R", "S", "T", "U", "V", "W", "X", "Y", "Z">>

LowerAlphabet ==
    <<"a", "b", "c", "d", "e", "f", "g", "h", "i", "j", "k", "l", "m",
      "n", "o", "p", "q", "r", "s", "t", "u", "v", "w", "x", "y", "z">>

\* str.lower() on one character
LowerChar(c) ==
    IF \E i \in DOMAIN UpperAlphabet : UpperAlphabet[i] = c
    THEN LowerAlphabet[CHOOSE i \in DOMAIN UpperAlphabet : UpperAlphabet[i] = c]
    ELSE c

\* str.upper() on one character
UpperChar(c) ==
    IF \E i \in DOMAIN LowerAlphabet : LowerAlphabet[i] = c
    THEN UpperAlphabet[CHOOSE i \in DOMAIN LowerAlphabet : LowerAlphabet[i] = c]
    ELSE c

\* str.lower()
lower(s) == [i \in DOMAIN s |-> LowerChar(s[i])]

\* str.upper()
upper(s) == [i \in DOMAIN s |-> UpperChar(s[i])]

\* str.isspace() on one character (the model's only whitespace is the blank)
IsSpace(c) == c = " "

RECURSIVE lstrip(_)
lstrip(s) ==
    IF s # <<>> /\ IsSpace(Head(s)) THEN lstrip(Tail(s)) ELSE s

RECURSIVE rstrip(_)
rstrip(s) ==
    IF s # <<>> /\ IsSpace(s[Len(s)]) THEN rstrip(SubSeq(s, 1, Len(s) - 1)) ELSE s

\* str.strip()
strip(s) == rstrip(lstrip(s))

\* the Python test  sub in s  on strings
InStr(sub, s) ==
    \E i \in 0..(Len(s) - Len(sub)) : SubSeq(s, i + 1, i + Len(sub)) = sub

\* index of the first character after position  from  that is (not) a blank
RECURSIVE WordEnd(_, _)
WordEnd(s, from) ==
    IF from > Len(s) \/ IsSpace(s[from]) THEN from ELSE WordEnd(s, from + 1)

\* str.split() without arguments: the list of whitespace-separated words
RECURSIVE split(_)
split(s) ==
    LET t == lstrip(s)
        e == WordEnd(t, 1)
    IN  IF t = <<>> THEN <<>>
        ELSE <<SubSeq(t, 1, e - 1)>> \o split(SubSeq(t, e, Len(t)))

\* s.split(sep)[-1]: what follows the last occurrence of sep that the
\* left-to-right scan of split finds, or s itself when there is none
RECURSIVE SplitLast(_, _)
SplitLast(s, sep) ==
    IF ~InStr(sep, s) THEN s
    ELSE LET i == CHOOSE k \in 0..(Len(s) - Len(sep)) :
                     /\ SubSeq(s, k + 1, k + Len(sep)) = sep
                     /\ \A j \in 0..(k - 1) : SubSeq(s, j + 1, j + Len(sep)) # sep
         IN  SplitLast(SubSeq(s, i + Len(sep) + 1, Len(s)), sep)

\* str.replace(old, new) for one-character old and new
replace(s, old, new) == [i \in DOMAIN s |-> IF s[i] = old THEN new ELSE s[i]]

\* the Python test  x in lst  on lists
InList(x, lst) == \E i \in DOMAIN lst : lst[i] = x

\* list.remove(x): drops the first occurrence of x
ListRemove(lst, x) ==
    LET i == CHOOSE k \in DOMAIN lst : lst[k] = x /\ \A j \in 1..(k - 1) : lst[j] # x
    IN  SubSeq(lst, 1, i - 1) \o SubSeq(lst, i + 1, Len(lst))

Count(x, lst) == Cardinality({ i \in DOMAIN lst : lst[i] = x })

\* sorted(a) == sorted(b): the two lists hold the same elements as often
SortedEqual(a, b) ==
    /\ Len(a) = Len(b)
    /\ \A x \in Range(a) \cup Range(b) : Count(x, a) = Count(x, b)

RECURSIVE Flatten(_)
Flatten(ss) == IF ss = <<>> THEN <<>> ELSE Head(ss) \o Flatten(Tail(ss))

\* all sequences over S of length at most n
SeqUpTo(S, n) == UNION { [1..k -> S] : k \in 0..n }

(***************************************************************************)
(* String literals of flayer.py.                                           *)
(***************************************************************************)
uppercased_tags ==
    { <<"2", "g">>,
      <<"3", "g">>,
      <<"4", "g">>,
      <<"a", "g", "r", "c">>,
      <<"a", "o", "g">>,
      <<"a", "t", "&", "t">>,
      <<"b", "l", "m">>,
      <<"b", "r", "a", "t">>,
      <<"c", "a", "f">>,
      <<"c", "d", "l">>,
      <<"d", "a", "q">>,
      <<"d", "f", "c", "m">>,
      <<"d", "f", "i", "r", "m">>,
      <<"d", "w", "q">>,
      <<"e", "9", "1", "1">>,
      <<"e", "m", "s">>,
      <<"f", "a", "e">>,
      <<"f", "c", "c">>,
      <<"f", "e", "m", "a">>,
      <<"g", "c", "d", "b">>,
      <<"g", "i", "s">>,
      <<"g", "n", "i", "s">>,
      <<"h", "a", "v", "a">>,
      <<"h", "u", "c">>,
      <<"l", "i", "r">>,
      <<"l", "r", "s">>,
      <<"l", "t", "e">>,
      <<"l", "u", "c", "a">>,
      <<"m", "r", "r", "c">>,
      <<"n", "c", "a">>,
      <<"n", "g", "9", "1", "1">>,
      <<"n", "o", "x">>,
      <<"n", "p", "s", "b", "n">>,
      <<"n", "t", "i", "a">>,
      <<"n", "w", "i">>,
      <<"p", "l", "s", "s">>,
      <<"p", "m", "1", "0">>,
      <<"p", "s", "a", "p">>,
      <<"s", "b", "d", "c">>,
      <<"s", "b", "i">>,
      <<"s", "g", "i", "d">>,
      <<"s", "i", "t", "l", "a">>,
      <<"s", "l", "i", "g", "p">>,
      <<"t", "r", "a", "x">>,
      <<"u", "c", "a">>,
      <<"u", "d", "o", "t">>,
      <<"u", "g", "s">>,
      <<"u", "h", "p">>,
      <<"u", "i", "c">>,
      <<"u", "s", "d", "w">>,
      <<"u", "s", "f", "s">>,
      <<"u", "s", "f", "w", "s">>,
      <<"u", "s", "p", "s">>,
      <<"u", "s", "t", "c">>,
      <<"u", "t">>,
      <<"u", "t", "a">>,
      <<"v", "c", "p">>,
      <<"v", "i", "s", "t", "a">>,
      <<"v", "o", "c">> }

STR_utah == <<"u", "t", "a", "h">>
STR_Utah == <<"U", "t", "a", "h">>
STR_SGID == <<"S", "G", "I", "D">>
STR_blank == <<" ">>
STR_dot_sd == <<".", "s", "d">>
STR_service_definition == <<"s", "e", "r", "v", "i", "c", "e", " ", "d", "e", "f", "i", "n", "i", "t", "i", "o", "n">>
STR_Utah_SGID == <<"U", "t", "a", "h", " ", "S", "G", "I", "D">>

(***************************************************************************)
(* Inputs of the tag fixer: titles, tags and sharing-group names of the    *)
(* remote items.                                                           *)
(***************************************************************************)
STR_sgid_spaced == <<" ", "s", "g", "i", "d">>
STR_Parks == <<"P", "a", "r", "k", "s">>
STR_State_Parks == <<"S", "t", "a", "t", "e", " ", "P", "a", "r", "k", "s">>
STR_Utah_State_Parks == <<"U", "t", "a", "h", " ", "S", "t", "a", "t", "e", " ", "P", "a", "r", "k", "s">>
STR_Roads == <<"R", "o", "a", "d", "s">>
STR_utah_roads == <<"u", "t", "a", "h", " ", "r", "o", "a", "d", "s">>
STR_Utah_SGID_Parks == <<"U", "t", "a", "h", " ", "S", "G", "I", "D", " ", "P", "a", "r", "k", "s">>
STR_AGRC_Shelf == <<"A", "G", "R", "C", " ", "S", "h", "e", "l", "f">>

TagPool ==
    { STR_utah, STR_Utah, STR_sgid_spaced, STR_SGID, STR_Parks, STR_dot_sd,
      STR_State_Parks, lower(STR_Parks) }

TitlePool == { STR_Utah_State_Parks, STR_Roads, STR_utah_roads }

\* a list of sharing groups and the position at which reading it fails:
\* fail = 0 is a lookup that succeeds, fail = k > 0 one that raises when the
\* k-th group title is about to be appended (k - 1 titles were read)
GroupCases ==
    { [groups |-> <<>>, fail |-> 0],
      [groups |-> <<STR_Utah_SGID_Parks>>, fail |-> 0],
      [groups |-> <<STR_Utah_SGID_Parks>>, fail |-> 1],
      [groups |-> <<STR_Utah_SGID_Parks, STR_AGRC_Shelf>>, fail |-> 2],
      [groups |-> <<STR_AGRC_Shelf, STR_Utah_SGID_Parks>>, fail |-> 0] }

\* tag lists as the platform holds them: no string twice
TagLists == { ts \in SeqUpTo(TagPool, MaxTags) :
                \A i, j \in DOMAIN ts : i # j => ts[i] # ts[j] }

Item(id, title, tags, gc) ==
    [itemid |-> id, title |-> title, tags |-> tags,
     groups |-> gc.groups, fail |-> gc.fail]

\* the items that follow the first one in feature_service_items: one whose
\* tags the fixer rewrites and one it leaves alone
FollowerPool ==
    { [title |-> STR_Roads, tags |-> <<STR_sgid_spaced>>,
       groups |-> <<>>, fail |-> 0],
      [title |-> STR_Roads, tags |-> <<STR_Parks>>,
       groups |-> <<>>, fail |-> 0] }

Renumber(items) == [i \in DOMAIN items |-> [items[i] EXCEPT !.itemid = i]]

(***************************************************************************)
(* flayer.py, org.tag_fixer: the per-item transform.                       *)
(***************************************************************************)
\* lines 325-369: what one original tag contributes to new_tags
EvaluateTag(orig_tag, title) ==
    LET single_word_tag_in_title == InList(orig_tag, split(title))
        multi_word_tag_in_title ==
            InStr(STR_blank, orig_tag) /\ InStr(orig_tag, title)
        cleaned_tag == lower(orig_tag)
    IN  IF cleaned_tag \in uppercased_tags
            THEN <<upper(cleaned_tag)>>
        ELSE IF cleaned_tag = STR_utah /\ ~InList(orig_tag, split(title))
            THEN <<STR_Utah>>
        ELSE IF cleaned_tag \in {STR_dot_sd, STR_service_definition}
            THEN <<>>
        ELSE IF single_word_tag_in_title \/ multi_word_tag_in_title
            THEN <<>>
        ELSE <<orig_tag>>

\* lines 318-369: new_tags after the loop over the stripped original tags
EvaluateTags(tags, title) ==
    Flatten([i \in DOMAIN tags |-> EvaluateTag(strip(tags[i]), title)])

\* lines 372-378: the group titles read before the lookup raised, if it did
ReadGroups(item) ==
    IF item.fail = 0 THEN item.groups
    ELSE SubSeq(item.groups, 1, item.fail - 1)

\* line 378: the bare except records the title
GroupLookupFailed(item) == item.fail # 0

\* lines 381-391: one sharing group's effect on new_tags
AddCategory(new_tags, group) ==
    IF InStr(STR_Utah_SGID, group)
    THEN LET category == SplitLast(group, STR_Utah_SGID)
             with_category ==
                 IF InList(lower(category), new_tags)
                     THEN Append(ListRemove(new_tags, lower(category)), category)
                 ELSE IF ~InList(category, new_tags)
                     THEN Append(new_tags, category)
                 ELSE new_tags
         IN  IF ~InList(STR_SGID, with_category)
             THEN Append(with_category, STR_SGID)
             ELSE with_category
    ELSE new_tags

\* lines 380-391: the loop over the groups that were read
RECURSIVE AddCategories(_, _)
AddCategories(new_tags, groups) ==
    IF groups = <<>> THEN new_tags
    ELSE AddCategories(AddCategory(new_tags, Head(groups)), Tail(groups))

\* lines 318-391: new_tags of one item
NewTags(item) ==
    AddCategories(EvaluateTags(item.tags, item.title), ReadGroups(item))

\* a tag_fixer that compares the lengths of the two lists only
NeedsUpdate_Length(item) == Len(item.tags) # Len(NewTags(item))

\* line 394: the write is issued only when the sorted lists differ
NeedsUpdate(item) == ~SortedEqual(item.tags, NewTags(item))

(***************************************************************************)
(* flayer.py, org.tag_fixer: the run over feature_service_items.           *)
(***************************************************************************)
\* lines 308-314: tag_fixer is called (a second call follows a first one
\* that ran to its end)
FixerCall ==
    /\ \/ fxPc = "start"
       \/ fxPc = "reported" /\ fxRun = 1
    /\ fxPc' = "loop"
    /\ fxRun' = fxRun + 1
    /\ fxCounter' = 0
    /\ fxUpdated' = 0
    /\ failed_group_items' = <<>>
    /\ fxSummary' = <<>>
    /\ UNCHANGED <<feature_service_items, fxHist>>

\* lines 315-408: one iteration of the loop; item.update either succeeds
\* or raises, and nothing in tag_fixer catches what it raises
FixItem ==
    /\ fxPc = "loop"
    /\ fxCounter < Len(feature_service_items)
    /\ LET i == fxCounter + 1
           item == feature_service_items[i]
           new_tags == NewTags(item)
           failed == IF GroupLookupFailed(item)
                     THEN Append(failed_group_items, item.title)
                     ELSE failed_group_items
       IN  /\ fxCounter' = i
           /\ failed_group_items' = failed
           /\ IF NeedsUpdate(item)
              THEN \E ok \in BOOLEAN :
                     /\ feature_service_items' =
                          IF ok
                          THEN [feature_service_items EXCEPT ![i].tags = new_tags]
                          ELSE feature_service_items
                     /\ fxUpdated' = IF ok THEN fxUpdated + 1 ELSE fxUpdated
                     /\ fxPc' = IF ok THEN "loop" ELSE "raised"
                     /\ fxHist' = Append(fxHist,
                          [run |-> fxRun, idx |-> i, old |-> item.tags,
                           new |-> new_tags, write |-> TRUE, ok |-> ok])
              ELSE /\ UNCHANGED <<feature_service_items, fxUpdated, fxPc>>
                   /\ fxHist' = Append(fxHist,
                          [run |-> fxRun, idx |-> i, old |-> item.tags,
                           new |-> new_tags, write |-> FALSE, ok |-> TRUE])
    /\ UNCHANGED <<fxRun, fxSummary>>

\* lines 410-417: the summary after the loop
FixerReport ==
    /\ fxPc = "loop"
    /\ fxCounter = Len(feature_service_items)
    /\ fxPc' = "reported"
    /\ fxSummary' = <<[updated |-> fxUpdated,
                       total |-> Len(feature_service_items),
                       failed |-> failed_group_items]>>
    /\ UNCHANGED <<feature_service_items, fxRun, fxCounter, fxUpdated,
                   failed_group_items, fxHist>>

InitFixerVars ==
    /\ fxPc = "start"
    /\ fxRun = 0
    /\ fxCounter = 0
    /\ fxUpdated = 0
    /\ failed_group_items = <<>>
    /\ fxSummary = <<>>
    /\ fxHist = <<>>

InitFixer ==
    /\ \E title \in TitlePool, tags \in TagLists, gc \in GroupCases,
          rest \in SeqUpTo(FollowerPool, MaxItems - 1) :
         feature_service_items =
            Renumber(<<Item(1, title, tags, gc)>> \o
                     [i \in DOMAIN rest |-> [itemid |-> 0] @@ rest[i]])
    /\ InitFixerVars

(***************************************************************************)
(* flayer.py: the tag index and the duplicate-tag detector.                *)
(***************************************************************************)
\* most calls of get_users_tags_and_item_names in one process
MaxCalls == 2
\* most org objects constructed in one process
MaxOrgs == 2
\* longest tag list of an item of the audited account
MaxAuditTags == 1

STR_sgid == <<"s", "g", "i", "d">>

AuditTagPool == { STR_SGID, STR_sgid, STR_Parks }

AuditTagLists == { ts \in SeqUpTo(AuditTagPool, MaxAuditTags) :
                     \A i, j \in DOMAIN ts : i # j => ts[i] # ts[j] }

\* the characters of the model in code-point order
CodePoints ==
    <<" ", "&", ".", "0", "1", "2", "3", "4", "5", "6", "7", "8", "9",
      "A", "B", "C", "D", "E", "F", "G", "H", "I", "J", "K", "L", "M",
      "N", "O", "P", "Q", "R", "S", "T", "U", "V", "W", "X", "Y", "Z",
      "a", "b", "c", "d", "e", "f", "g", "h", "i", "j", "k", "l", "m",
      "n", "o", "p", "q", "r", "s", "t", "u", "v", "w", "x", "y", "z">>

Ord(c) == CHOOSE i \in DOMAIN CodePoints : CodePoints[i] = c

\* the Python order a < b on strings
RECURSIVE StrLess(_, _)
StrLess(a, b) ==
    IF b = <<>> THEN FALSE
    ELSE IF a = <<>> THEN TRUE
    ELSE IF Head(a) # Head(b) THEN Ord(Head(a)) < Ord(Head(b))
    ELSE StrLess(Tail(a), Tail(b))

\* sorted(S) for a set of distinct strings
RECURSIVE SortedList(_)
SortedList(S) ==
    IF S = {} THEN <<>>
    ELSE LET m == CHOOSE x \in S : \A y \in S \ {x} : StrLess(x, y)
         IN  <<m>> \o SortedList(S \ {m})

Keys(d) == [i \in DOMAIN d |-> d[i].key]

HasKey(d, k) == \E i \in DOMAIN d : d[i].key = k

KeyIndex(d, k) == CHOOSE i \in DOMAIN d : d[i].key = k

\* lines 171-174 and 179-182: d[tag] = [x] for a new key, d[tag].append(x)
\* for one the dictionary holds
DictAppend(d, k, x) ==
    IF HasKey(d, k)
    THEN [d EXCEPT ![KeyIndex(d, k)].val = Append(@, x)]
    ELSE Append(d, [key |-> k, val |-> <<x>>])

\* lines 170-174: the inner loop over one item's tags
RECURSIVE IndexTags(_, _, _)
IndexTags(d, tags, id) ==
    IF tags = <<>> THEN d
    ELSE IndexTags(DictAppend(d, Head(tags), id), Tail(tags), id)

\* lines 169-174 and 177-182: the loop over the enumerated items
RECURSIVE IndexItems(_, _)
IndexItems(d, items) ==
    IF items = <<>> THEN d
    ELSE IndexItems(IndexTags(d, Head(items).tags, Head(items).itemid),
                    Tail(items))

SelectItems(acc, Test(_)) ==
    LET picked == SelectSeq(acc, Test)
    IN  [i \in DOMAIN picked |-> picked[i].item]

IsOwned(a) == a.owned

IsInFolder(a) == a.inFolder

\* lines 163-165: the items the owner search returns
OwnerSearch == SelectItems(account, IsOwned)

\* lines 134-143: the feature services found in the user's folders
FolderWalk == SelectItems(account, IsInFolder)

\* lines 162-182: the items the chosen method enumerates
Enumerate(method) ==
    IF method = "owner" THEN OwnerSearch
    ELSE IF method = "folder" THEN feature_service_items
    ELSE <<>>

\* lines 162-186: tags_and_items after the call, from tags_and_items before
IndexAfter(before, method) == IndexItems(before, Enumerate(method))

\* lines 119-143: org.__init__ appends the folder items to the class-level
\* list feature_service_items
OrgInit ==
    /\ orgs < MaxOrgs
    /\ orgs' = orgs + 1
    /\ feature_service_items' = feature_service_items \o FolderWalk
    /\ UNCHANGED <<account, calls, tags_and_items, sorted_tags,
                   duplicate_tags, enumerated, dupFrom>>

\* lines 146-186: get_users_tags_and_item_names(method)
GetUsersTags ==
    /\ orgs > 0
    /\ calls < MaxCalls
    /\ \E method \in {"owner", "folder"} :
         /\ tags_and_items' = IndexAfter(tags_and_items, method)
         /\ enumerated' = [i \in DOMAIN Enumerate(method) |->
                              Enumerate(method)[i].itemid]
    /\ sorted_tags' = SortedList(Range(Keys(tags_and_items')))
    /\ calls' = calls + 1
    /\ UNCHANGED <<account, orgs, feature_service_items, duplicate_tags,
                   dupFrom>>

\* a detector that groups the tags by their spelling as it stands
CheckTag_NoFold(tag) == tag

\* line 279: the key a tag is grouped under
CheckTag(tag) == lower(tag)

\* lines 278-288: tags_by_check_tag after the loop over the index's keys
RECURSIVE GroupByCheckTag(_, _)
GroupByCheckTag(d, tags) ==
    IF tags = <<>> THEN d
    ELSE GroupByCheckTag(DictAppend(d, CheckTag(Head(tags)), Head(tags)),
                         Tail(tags))

\* line 294: the groups that are kept
IsDuplicate(entry) == Len(entry.val) > 1

\* lines 272-294: duplicate_tags from the tag index
DuplicatesOf(index) == SelectSeq(GroupByCheckTag(<<>>, Keys(index)), IsDuplicate)

\* lines 248-299: get_duplicate_tags; an empty index is first populated by
\* get_users_tags_and_item_names() with its default method
GetDuplicateTags ==
    /\ orgs > 0
    /\ LET populate == tags_and_items = <<>>
           index == IF populate THEN IndexAfter(tags_and_items, "owner")
                    ELSE tags_and_items
       IN  /\ tags_and_items' = index
           /\ sorted_tags' = IF populate THEN SortedList(Range(Keys(index)))
                             ELSE sorted_tags
           /\ enumerated' = IF populate
                            THEN [i \in DOMAIN OwnerSearch |-> OwnerSearch[i].itemid]
                            ELSE enumerated
           /\ duplicate_tags' = DuplicatesOf(index)
           /\ dupFrom' = <<Keys(index)>>
    /\ UNCHANGED <<account, orgs, calls, feature_service_items>>

InitIndexVars ==
    /\ orgs = 0
    /\ calls = 0
    /\ tags_and_items = <<>>
    /\ sorted_tags = <<>>
    /\ duplicate_tags = <<>>
    /\ enumerated = <<>>
    /\ dupFrom = <<>>

AuditItem(id, tags) ==
    [itemid |-> id, title |-> STR_Roads, tags |-> tags, groups |-> <<>>,
     fail |-> 0]

\* an account of three feature services: one owned by the user and lying in
\* the user's folders, one owned and lying elsewhere, one of another owner
\* lying in the user's folders
InitAudit ==
    /\ \E t1, t2, t3 \in AuditTagLists :
         account = << [item |-> AuditItem(1, t1), owned |-> TRUE, inFolder |-> TRUE],
                      [item |-> AuditItem(2, t2), owned |-> TRUE, inFolder |-> FALSE],
                      [item |-> AuditItem(3, t3), owned |-> FALSE, inFolder |-> TRUE] >>
    /\ InitIndexVars
    /\ feature_service_items = <<>>

(***************************************************************************)
(* NightStocker.py: more str primitives.                                   *)
(***************************************************************************)
IsLetter(c) ==
    \/ \E i \in DOMAIN UpperAlphabet : UpperAlphabet[i] = c
    \/ \E i \in DOMAIN LowerAlphabet : LowerAlphabet[i] = c

\* str.title(): a letter that follows no letter is upper-cased, every other
\* letter lower-cased
title(s) ==
    [i \in DOMAIN s |->
        IF i > 1 /\ IsLetter(s[i - 1]) THEN LowerChar(s[i]) ELSE UpperChar(s[i])]

\* position of the first sep in s, or 0
FirstIndex(s, sep) ==
    IF \E i \in DOMAIN s : s[i] = sep
    THEN CHOOSE i \in DOMAIN s : s[i] = sep /\ \A j \in 1..(i - 1) : s[j] # sep
    ELSE 0

\* str.split(sep) for a one-character sep
RECURSIVE SplitOn(_, _)
SplitOn(s, sep) ==
    LET i == FirstIndex(s, sep)
    IN  IF i = 0 THEN <<s>>
        ELSE <<SubSeq(s, 1, i - 1)>> \o SplitOn(SubSeq(s, i + 1, Len(s)), sep)

\* str.partition(sep)[2] for a one-character sep
PartitionTail(s, sep) ==
    LET i == FirstIndex(s, sep)
    IN  IF i = 0 THEN <<>> ELSE SubSeq(s, i + 1, Len(s))

\* sep.join(lst)
RECURSIVE Join(_, _)
Join(sep, lst) ==
    IF lst = <<>> THEN <<>>
    ELSE IF Len(lst) = 1 THEN lst[1]
    ELSE lst[1] \o sep \o Join(sep, Tail(lst))

\* s[:n]
Take(s, n) == SubSeq(s, 1, IF Len(s) < n THEN Len(s) ELSE n)

(***************************************************************************)
(* String literals of NightStocker.py.                                     *)
(***************************************************************************)
STR_AGRC == <<"A", "G", "R", "C">>
STR_shelved == <<"s", "h", "e", "l", "v", "e", "d">>
STR_static == <<"s", "t", "a", "t", "i", "c">>
STR_removed == <<"r", "e", "m", "o", "v", "e", "d">>
STR_AGRC_Shelved == <<"A", "G", "R", "C", "_", "S", "h", "e", "l", "v", "e", "d">>
STR_comma_blank == <<",", " ">>
STR_body_open == <<" ", "<", "p", ">", " ", "<", "/", "p", ">", " ", "<", "p", ">">>
STR_body_close == <<"<", "/", "p", ">">>
STR_Table_not_uploaded == <<"T", "a", "b", "l", "e", ":", " ", "n", "o", "t", " ", "u", "p", "l",
      "o", "a", "d", "e", "d">>
STR_testing == <<"t", "e", "s", "t", "i", "n", "g">>
STR_endpoint_prefix == <<"h", "t", "t", "p", "s", ":", "/", "/", "o", "p", "e", "n", "d", "a",
      "t", "a", ".", "g", "i", "s", ".", "u", "t", "a", "h", ".", "g",
      "o", "v", "/", "d", "a", "t", "a", "s", "e", "t", "s", "/">>

shelved_disclaimer ==
    <<"<", "i", ">", "<", "b", ">", "N", "O", "T", "E", "<", "/", "b", ">",
      ":", " ", "T", "h", "i", "s", " ", "d", "a", "t", "a", "s", "e",
      "t", " ", "i", "s", " ", "a", "n", " ", "o", "l", "d", "e", "r",
      " ", "d", "a", "t", "a", "s", "e", "t", " ", "t", "h", "a", "t",
      " ", "w", "e", " ", "h", "a", "v", "e", " ", "r", "e", "m", "o",
      "v", "e", "d", " ", "f", "r", "o", "m", " ", "t", "h", "e", " ",
      "S", "G", "I", "D", " ", "a", "n", "d", " ", "'", "s", "h", "e",
      "l", "v", "e", "d", "'", " ", "i", "n", " ", "A", "r", "c", "G",
      "I", "S", " ", "O", "n", "l", "i", "n", "e", ".", " ", "T", "h",
      "e", "r", "e", " ", "m", "a", "y", " ", "b", "e", " ", "a", " ",
      "n", "e", "w", "e", "r", " ", "v", "i", "n", "t", "a", "g", "e",
      " ", "o", "f", " ", "t", "h", "i", "s", " ", "d", "a", "t", "a",
      "s", "e", "t", " ", "i", "n", " ", "t", "h", "e", " ", "S", "G",
      "I", "D", ".", "<", "/", "i", ">">>

static_disclaimer ==
    <<"<", "i", ">", "<", "b", ">", "N", "O", "T", "E", "<", "/", "b", ">",
      ":", " ", "T", "h", "i", "s", " ", "d", "a", "t", "a", "s", "e",
      "t", " ", "h", "o", "l", "d", "s", " ", "'", "s", "t", "a", "t",
      "i", "c", "'", " ", "d", "a", "t", "a", " ", "t", "h", "a", "t",
      " ", "w", "e", " ", "d", "o", "n", "'", "t", " ", "e", "x", "p",
      "e", "c", "t", " ", "t", "o", " ", "c", "h", "a", "n", "g", "e",
      ".", " ", "W", "e", " ", "h", "a", "v", "e", " ", "r", "e", "m",
      "o", "v", "e", "d", " ", "i", "t", " ", "f", "r", "o", "m", " ",
      "t", "h", "e", " ", "S", "D", "E", " ", "d", "a", "t", "a", "b",
      "a", "s", "e", " ", "a", "n", "d", " ", "p", "l", "a", "c", "e",
      "d", " ", "i", "t", " ", "i", "n", " ", "A", "r", "c", "G", "I",
      "S", " ", "O", "n", "l", "i", "n", "e", ",", " ", "b", "u", "t",
      " ", "i", "t", " ", "i", "s", " ", "s", "t", "i", "l", "l", " ",
      "c", "o", "n", "s", "i", "d", "e", "r", "e", "d", " ", "p", "a",
      "r", "t", " ", "o", "f", " ", "t", "h", "e", " ", "S", "G", "I",
      "D", " ", "a", "n", "d", " ", "s", "h", "a", "r", "e", "d", " ",
      "o", "n", " ", "o", "p", "e", "n", "d", "a", "t", "a", ".", "g",
      "i", "s", ".", "u", "t", "a", "h", ".", "g", "o", "v", ".", "<",
      "/", "i", ">">>

\* line 250: the summary keeps the first 2047 characters of the snippet
SnippetLimit == 2047

(***************************************************************************)
(* Inputs of the publishing batch: the control list, the metadata lookup,  *)
(* the generic terms of use and what the desktop GIS reports.              *)
(***************************************************************************)
\* most rows of the control list
MaxRows == 2

STR_active == <<"a", "c", "t", "i", "v", "e">>
STR_fc_habitat == <<"S", "G", "I", "D", "1", "0", ".", "B", "I", "O", "S", "C", "I", "E",
      "N", "C", "E", ".", "H", "a", "b", "i", "t", "a", "t", "_", "P",
      "i", "g", "e", "o", "n">>
STR_fc_roads == <<"S", "G", "I", "D", "1", "0", ".", "T", "R", "A", "N", "S", "P", "O",
      "R", "T", "A", "T", "I", "O", "N", ".", "R", "o", "a", "d", "s">>
STR_Habitat_Pigeon == <<"H", "a", "b", "i", "t", "a", "t", "_", "P", "i", "g", "e", "o", "n">>
STR_Roads_short == <<"R", "o", "a", "d", "s">>
STR_Pigeon_Habitat == <<"P", "i", "g", "e", "o", "n", " ", "H", "a", "b", "i", "t", "a", "t">>
STR_Utah_Roads == <<"U", "t", "a", "h", " ", "R", "o", "a", "d", "s">>
STR_DWR == <<"D", "W", "R">>
STR_GL == <<"G", "L">>
STR_d == <<"d">>
STR_s == <<"s">>
STR_roads_tags == <<"r", "o", "a", "d", "s", ",", "S", "G", "I", "D">>
STR_UDOT_license == <<"U", "D", "O", "T">>
STR_Polygon == <<"P", "o", "l", "y", "g", "o", "n">>
STR_message == <<"E", "R", "R", "O", "R", " ", "1", ",", " ", "n", "o", " ", "l", "o",
      "c", "k">>

Dispositions == { STR_shelved, STR_static, STR_active, STR_removed }

\* rows of the control file: [0] qualified name, [1] title, [2] credit,
\* [3] disposition
ControlRows ==
    { [fc_name |-> STR_fc_habitat, title |-> STR_Pigeon_Habitat,
       credit |-> STR_DWR, disposition |-> d] : d \in Dispositions }
    \cup
    { [fc_name |-> STR_fc_roads, title |-> STR_Utah_Roads,
       credit |-> <<>>, disposition |-> d] : d \in Dispositions }

\* metadata2.json
metadata_lookup ==
    << [key |-> STR_Habitat_Pigeon,
        val |-> [tags |-> <<>>, description |-> STR_d, snippet |-> STR_s,
                 licenseInfo |-> <<>>]],
       [key |-> STR_Roads_short,
        val |-> [tags |-> STR_roads_tags, description |-> STR_d,
                 snippet |-> STR_s, licenseInfo |-> STR_UDOT_license]] >>

generic_terms_of_use == STR_GL

\* lines 350-356: the rows kept from the control file
ReadControlList(rows) ==
    LET Kept(row) == row.disposition # STR_removed
    IN  SelectSeq(rows, Kept)

(***************************************************************************)
(* NightStocker.py: project_data and create_service_definition.            *)
(***************************************************************************)
\* the steps of create_service_definition that call the desktop GIS, in
\* the order of lines 121-162
CsdSteps == <<"project", "open", "add", "export", "stage">>

StepIndex(step) == CHOOSE i \in DOMAIN CsdSteps : CsdSteps[i] = step

\* what a failing step raises: the geoprocessing tools (Project, Copy,
\* StageService) raise arcpy.ExecuteError, the arcpy.mp calls another error
ErrorOf(step) ==
    IF step \in {"project", "stage"} THEN "ExecuteError" ELSE "OtherError"

\* lines 16-39: project_data returns the output table or raises
project_data(failStep) ==
    IF failStep = "project" THEN ErrorOf("project") ELSE "none"

\* a step of lines 121-162 was reached and did not raise
Passed(step, failStep) ==
    failStep = "none" \/ StepIndex(step) < StepIndex(failStep)

\* line 138: the local  layer  is bound once addDataFromPath has returned
LayerBound(failStep) == Passed("add", failStep)

\* lines 114-199: what the call raises to its caller ("none" when it
\* returns sd_path) and the layers of the saved map afterwards
create_service_definition(layer_info, saved, is_table, failStep) ==
    LET tryError == IF project_data(failStep) # "none"
                    THEN project_data(failStep)
                    ELSE IF failStep = "none" THEN "none" ELSE ErrorOf(failStep)
        \* lines 132-138: every layer is removed from the map that was
        \* opened, the new one added; line 149 saves the project
        savedAt149 == IF Passed("add", failStep)
                      THEN <<layer_info.fc_name>> ELSE saved
        \* lines 170-177: the finally block reads  layer
        finallyError == IF LayerBound(failStep) THEN "none"
                        ELSE "UnboundLocalError"
        savedAt177 == IF LayerBound(failStep) /\ ~is_table
                      THEN SelectSeq(savedAt149,
                                     LAMBDA l : l # layer_info.fc_name)
                      ELSE savedAt149
    IN  [ raised   |-> IF finallyError # "none" THEN finallyError ELSE tryError,
          original |-> tryError,
          saved    |-> savedAt177 ]

(***************************************************************************)
(* NightStocker.py: get_info.                                              *)
(***************************************************************************)
\* lines 213-221: the tags of the metadata with the base tags
BaseTagged(metadata) ==
    LET base_tags == <<STR_AGRC, STR_SGID>>
        AddBase(tags, tag) == IF InList(tag, tags) THEN tags ELSE Append(tags, tag)
    IN  IF metadata.tags # <<>>
        THEN AddBase(AddBase(SplitOn(metadata.tags, ","), base_tags[1]), base_tags[2])
        ELSE base_tags

\* a get_info that puts the disposition tag first
ShelvedTags_First(tags) == <<STR_shelved>> \o tags

\* line 235: the tags of a shelved dataset
ShelvedTags(tags) == Append(tags, STR_shelved)

\* a get_info that leaves the category tag out
StaticTags_NoCategory(tags, category) == Append(tags, STR_static)

\* lines 240-241: the tags of a static dataset
StaticTags(tags, category) == Append(Append(tags, STR_static), category)

\* lines 202-259, reading the metadata in  lookup : raised is "none" and info
\* the dictionary returned, or raised names the exception
get_info_with(entry, generic, lookup) ==
    LET segments == SplitOn(entry.fc_name, ".")
        category == title(segments[Len(segments) - 1])
        credit == IF entry.credit # <<>> THEN entry.credit ELSE STR_AGRC
        short == segments[Len(segments)]
        metadata == lookup[KeyIndex(lookup, short)].val
        tags == BaseTagged(metadata)
        terms == IF metadata.licenseInfo # <<>> THEN metadata.licenseInfo
                 ELSE generic
        Described(disclaimer) ==
            disclaimer \o STR_body_open \o metadata.description \o STR_body_close
        Info(group, all_tags, folder, description) ==
            [ name |-> entry.title,
              summary |-> Take(metadata.snippet, SnippetLimit),
              groups |-> <<group>>,
              tags |-> Join(STR_comma_blank, all_tags),
              description |-> description,
              terms_of_use |-> terms,
              credits |-> credit,
              folder |-> folder ]
    IN  IF Len(segments) < 2 THEN [raised |-> "IndexError", info |-> <<>>]
        ELSE IF ~HasKey(lookup, short)
            THEN [raised |-> "KeyError", info |-> <<>>]
        ELSE IF entry.disposition = STR_shelved
            THEN [raised |-> "none",
                  info |-> Info(STR_AGRC_Shelf, ShelvedTags(tags),
                                STR_AGRC_Shelved, Described(shelved_disclaimer))]
        ELSE IF entry.disposition = STR_static
            THEN [raised |-> "none",
                  info |-> Info(STR_Utah_SGID \o STR_blank \o category,
                                StaticTags(tags, category),
                                STR_Utah_SGID \o STR_blank \o category,
                                Described(static_disclaimer))]
        ELSE [raised |-> "ValueError", info |-> <<>>]

\* lines 202-259, with the module's metadata_lookup (line 364)
get_info(entry, generic) == get_info_with(entry, generic, metadata_lookup)

(***************************************************************************)
(* NightStocker.py: one call of get_info, over control rows and metadata   *)
(* records of every shape the function tells apart.                        *)
(***************************************************************************)
\* control rows: qualified names of three categories, with and without a
\* credit, of every disposition
InfoEntries ==
    { [fc_name |-> f, title |-> STR_Pigeon_Habitat, credit |-> c,
       disposition |-> d] :
        f \in { STR_fc_habitat, STR_fc_roads,
                <<"s", "g", "i", "d", "1", "0", ".", "w", "a", "t", "e", "r", "_", "q", "u", "a", "l", "i", "t", "y", ".", "R", "o", "a", "d", "s">> },
        c \in { <<>>, STR_DWR }, d \in Dispositions }

\* metadata records: no tags, tags with and without the base tags, tags
\* that already hold the disposition or the category, tags written with a
\* blank after the comma; with and without a license
InfoMetadata ==
    { [tags |-> tg, description |-> STR_d, snippet |-> STR_s,
       licenseInfo |-> li] :
        tg \in { <<>>, STR_roads_tags,
                 <<"A", "G", "R", "C", ",", "S", "G", "I", "D">>,
                 <<"r", "o", "a", "d", "s", ",", " ", "S", "G", "I", "D">>,
                 <<"s", "t", "a", "t", "i", "c", ",", "B", "i", "o", "s", "c", "i", "e", "n", "c", "e">>,
                 <<"s", "h", "e", "l", "v", "e", "d", ",", "A", "G", "R", "C">> },
        li \in { <<>>, STR_UDOT_license } }

\* the call and its arguments; the metadata file holds one record, under
\* the short name of the entry or under another name
InitInfo ==
    /\ infoPc = "call"
    /\ infoEntry \in InfoEntries
    /\ \E k \in { STR_Habitat_Pigeon, STR_Roads_short }, m \in InfoMetadata :
          infoLookup = << [key |-> k, val |-> m] >>
    /\ infoResult = <<>>

\* nothing is being called
InitInfoIdle ==
    /\ infoPc = "returned"
    /\ infoEntry = <<>>
    /\ infoLookup = <<>>
    /\ infoResult = <<>>

\* lines 202-259: the call returns the dictionary or raises
GetInfo ==
    /\ infoPc = "call"
    /\ \E r \in { get_info_with(infoEntry, generic_terms_of_use, infoLookup) } :
          /\ infoResult' = r
          /\ infoPc' = IF r.raised = "none" THEN "returned" ELSE "raised"
    /\ UNCHANGED <<infoEntry, infoLookup>>

(***************************************************************************)
(* NightStocker.py: log_csv and the batch loop.                            *)
(***************************************************************************)
\* lines 315-328: the row is appended unless writing raises IOError, which
\* log_csv catches
log_csv(rows, action_info, ioOk) ==
    IF ioOk THEN Append(rows, action_info) ELSE rows

\* line 387
TableEntry(entry) == <<entry.title, STR_Table_not_uploaded>>

\* lines 418-420: the messages of the desktop GIS, commas made semicolons
ErrorEntry(entry, message) == <<entry.title, replace(message, ",", ";")>>

\* lines 400-408
PublishedEntry(entry, item_info, shapeType) ==
    LET item_id == STR_testing
        shape == lower(shapeType)
        dash_name == lower(replace(entry.title, " ", "-"))
        endpoint == STR_endpoint_prefix \o dash_name
        data_layer == PartitionTail(entry.fc_name, ".")
    IN  <<entry.title, entry.disposition, data_layer, item_info.description,
          item_info.credits, shape, endpoint, item_id>>

\* lines 384-421: the try block with its except clause.  le is log_entry
\* before the iteration.  error is what is still being raised when the
\* finally block is entered.
TryBody(entry, le, saved, is_table, failStep, message, gsheets) ==
    LET layer_info == [fc_name |-> entry.fc_name, title |-> entry.title]
        csd == create_service_definition(layer_info, saved, is_table, failStep)
        got == get_info(entry, generic_terms_of_use)
        row == PublishedEntry(entry, got.info, STR_Polygon)
        Result(newLe, logged, upd, sv, err) ==
            [log_entry |-> newLe, logged |-> logged, updated |-> upd,
             saved |-> sv, error |-> err,
             csdCalled |-> ~is_table,
             csdRaised |-> IF is_table THEN "none" ELSE csd.raised,
             csdOriginal |-> IF is_table THEN "none" ELSE csd.original,
             gotInfo |-> IF is_table \/ csd.raised # "none" THEN "none"
                         ELSE got.raised]
    IN  IF is_table
            THEN Result(<<TableEntry(entry)>>, <<TableEntry(entry)>>, <<>>,
                        saved, "none")
        ELSE IF csd.raised = "ExecuteError"
            THEN Result(<<ErrorEntry(entry, message)>>,
                        <<ErrorEntry(entry, message)>>, <<>>, csd.saved, "none")
        ELSE IF csd.raised # "none"
            THEN Result(le, <<>>, <<>>, csd.saved, csd.raised)
        ELSE IF got.raised # "none"
            THEN Result(le, <<>>, <<>>, csd.saved, got.raised)
        ELSE IF gsheets = "raise"
            THEN Result(<<row>>, <<row>>, <<>>, csd.saved, "OtherError")
        ELSE Result(<<row>>, <<row>>,
                    <<[key |-> entry.fc_name, val |-> gsheets]>>,
                    csd.saved, "none")

\* lines 423-424: the finally block: log_csv(log_entry, log_path), where
\* reading an unassigned log_entry raises NameError
FinallyError(newLe, error) == IF newLe = <<>> THEN "NameError" ELSE error

FinallyRows(rows, newLe, ioOk) ==
    IF newLe = <<>> THEN rows ELSE log_csv(rows, newLe[1], ioOk)

\* lines 373-382: describe raises before the try block is entered
DescribeFails ==
    /\ bPc = "loop"
    /\ bIdx < Len(layers)
    /\ bIdx' = bIdx + 1
    /\ bPc' = "aborted"
    /\ bError' = "OtherError"
    /\ bHist' = Append(bHist,
         [idx |-> bIdx + 1, title |-> layers[bIdx + 1].title,
          described |-> FALSE, is_table |-> FALSE, failStep |-> "none",
          csdCalled |-> FALSE, csdRaised |-> "none", csdOriginal |-> "none",
          gotInfo |-> "none", saved |-> template, rows |-> <<>>, ioOk |-> TRUE,
          message |-> <<>>, error |-> "OtherError"])
    /\ UNCHANGED <<layers, log_entry, log, updated_rows, csvLog, template>>

\* lines 373-424: one iteration of the batch loop after describe returned
Iteration ==
    /\ bPc = "loop"
    /\ bIdx < Len(layers)
    /\ \E is_table \in BOOLEAN, failStep \in {"none"} \cup Range(CsdSteps),
          gsheets \in {"row", "None", "raise"}, ioOk \in BOOLEAN :
         \E r \in { TryBody(layers[bIdx + 1], log_entry, template, is_table,
                            failStep, STR_message, gsheets) } :
         \E rows \in { FinallyRows(csvLog, r.log_entry, ioOk) } :
         LET entry == layers[bIdx + 1]
             error == FinallyError(r.log_entry, r.error)
         IN  /\ bIdx' = bIdx + 1
             /\ log_entry' = r.log_entry
             /\ log' = log \o r.logged
             /\ updated_rows' = updated_rows \o r.updated
             /\ template' = r.saved
             /\ csvLog' = rows
             /\ bError' = error
             /\ bPc' = IF error = "none" THEN "loop" ELSE "aborted"
             /\ bHist' = Append(bHist,
                  [idx |-> bIdx + 1, title |-> entry.title,
                   described |-> TRUE, is_table |-> is_table,
                   failStep |-> IF r.csdCalled THEN failStep ELSE "none",
                   csdCalled |-> r.csdCalled, csdRaised |-> r.csdRaised,
                   csdOriginal |-> r.csdOriginal,
                   gotInfo |-> r.gotInfo,
                   saved |-> r.saved,
                   rows |-> SubSeq(rows, Len(csvLog) + 1, Len(rows)),
                   ioOk |-> ioOk \/ r.log_entry = <<>>,
                   message |-> STR_message,
                   error |-> error])
    /\ UNCHANGED layers

\* line 426: the loop has run out of entries
BatchEnd ==
    /\ bPc = "loop"
    /\ bIdx = Len(layers)
    /\ bPc' = "done"
    /\ UNCHANGED <<layers, bIdx, log_entry, log, updated_rows, csvLog,
                   template, bError, bHist>>

InitBatchVars ==
    /\ bPc = "loop"
    /\ bIdx = 0
    /\ log_entry = <<>>
    /\ log = <<>>
    /\ updated_rows = <<>>
    /\ csvLog = <<>>
    /\ template = <<>>
    /\ bError = "none"
    /\ bHist = <<>>

InitBatch ==
    /\ \E rows \in SeqUpTo(ControlRows, MaxRows) : layers = ReadControlList(rows)
    /\ InitBatchVars

(***************************************************************************)
(* NightStocker.py: upload_layer.                                          *)
(***************************************************************************)
\* the info dictionaries get_info builds for the rows of the control list
UploadInfos ==
    { get_info(row, generic_terms_of_use).info :
        row \in { r \in ControlRows :
                    get_info(r, generic_terms_of_use).raised = "none" } }

\* an upload that enables delete-protection whatever  protect  says
UploadStepAfter_Slip(step, protect) ==
    CASE step = "add" -> "publish"
      [] step = "publish" -> "share"
      [] step = "share" -> "protect"
      [] step = "protect" -> "update"
      [] step = "update" -> "move_published"
      [] step = "move_published" -> "move_sd"
      [] step = "move_sd" -> "update_definition"
      [] step = "update_definition" -> "return"

\* lines 64-92: the remote call that follows  step  once it has returned
UploadStepAfter(step, protect) ==
    CASE step = "add" -> "publish"
      [] step = "publish" -> "share"
      [] step = "share" -> IF protect THEN "protect" ELSE "update"
      [] step = "protect" -> "update"
      [] step = "update" -> "move_published"
      [] step = "move_published" -> "move_sd"
      [] step = "move_sd" -> "update_definition"
      [] step = "update_definition" -> "return"

\* a remote call of upload_layer either returns, and the next line runs, or
\* raises, and the exception leaves upload_layer
RemoteCall(step, args) ==
    /\ upPc = step
    /\ \E ok \in BOOLEAN :
         IF ok
         THEN /\ upCalls' = Append(upCalls, [call |-> step, args |-> args])
              /\ upPc' = UploadStepAfter(step, upProtect)
         ELSE /\ upCalls' = upCalls
              /\ upPc' = "raised"
    /\ UNCHANGED <<upProtect, upInfo, upResult>>

\* upload_layer is called
UploadCall ==
    /\ upPc = "idle"
    /\ \E protect \in BOOLEAN, info \in UploadInfos :
         /\ upProtect' = protect
         /\ upInfo' = info
    /\ upPc' = "add"
    /\ UNCHANGED <<upCalls, upResult>>

\* line 64
UpAdd == RemoteCall("add", <<>>)

\* line 68
UpPublish == RemoteCall("publish", <<>>)

\* line 72
UpShare == RemoteCall("share", <<"everyone", "org", upInfo.groups>>)

\* lines 73-75
UpProtect == RemoteCall("protect", <<>>)

\* line 81
UpUpdate ==
    RemoteCall("update", <<upInfo.tags, upInfo.description,
                           upInfo.terms_of_use, upInfo.summary, upInfo.credits>>)

\* line 84
UpMovePublished == RemoteCall("move_published", <<upInfo.folder>>)

\* line 85
UpMoveSd == RemoteCall("move_sd", <<upInfo.folder>>)

\* lines 89-90
UpUpdateDefinition == RemoteCall("update_definition", <<"Query,Extract">>)

\* line 92
UpReturn ==
    /\ upPc = "return"
    /\ upPc' = "returned"
    /\ upResult' = <<"itemid">>
    /\ UNCHANGED <<upProtect, upInfo, upCalls>>

InitUploadVars ==
    /\ upPc = "idle"
    /\ upProtect = FALSE
    /\ upInfo = <<>>
    /\ upCalls = <<>>
    /\ upResult = <<>>

(***************************************************************************)
(* Specifications.  The two scripts share no state, and tag_fixer,  the    *)
(* tag index, the batch loop, upload_layer and get_info are separate entry *)
(* points: each specification runs one of them and leaves the rest at rest.*)
(***************************************************************************)
nonFixer == <<auditVars, batchVars, upVars, infoVars>>

nonAudit == <<fixerVars, batchVars, upVars, infoVars>>

nonBatch == <<feature_service_items, fixerVars, auditVars, upVars, infoVars>>

nonUpload == <<feature_service_items, fixerVars, auditVars, batchVars,
              infoVars>>

InitAuditIdle == account = <<>> /\ InitIndexVars

InitBatchIdle == layers = <<>> /\ InitBatchVars

NextFixer ==
    \/ FixerCall /\ UNCHANGED nonFixer
    \/ FixItem /\ UNCHANGED nonFixer
    \/ FixerReport /\ UNCHANGED nonFixer

InitFixerSpec ==
    /\ InitFixer /\ InitAuditIdle /\ InitBatchIdle /\ InitUploadVars
    /\ InitInfoIdle

SpecFixer == InitFixerSpec /\ [][NextFixer]_vars

NextAudit ==
    \/ OrgInit /\ UNCHANGED nonAudit
    \/ GetUsersTags /\ UNCHANGED nonAudit
    \/ GetDuplicateTags /\ UNCHANGED nonAudit

InitAuditSpec ==
    /\ InitAudit /\ InitFixerVars /\ InitBatchIdle /\ InitUploadVars
    /\ InitInfoIdle

SpecAudit == InitAuditSpec /\ [][NextAudit]_vars

NextBatch ==
    \/ DescribeFails /\ UNCHANGED nonBatch
    \/ Iteration /\ UNCHANGED nonBatch
    \/ BatchEnd /\ UNCHANGED nonBatch

InitBatchSpec ==
    /\ InitBatch /\ feature_service_items = <<>> /\ InitFixerVars
    /\ InitAuditIdle /\ InitUploadVars /\ InitInfoIdle

SpecBatch == InitBatchSpec /\ [][NextBatch]_vars

NextUpload ==
    \/ UploadCall /\ UNCHANGED nonUpload
    \/ UpAdd /\ UNCHANGED nonUpload
    \/ UpPublish /\ UNCHANGED nonUpload
    \/ UpShare /\ UNCHANGED nonUpload
    \/ UpProtect /\ UNCHANGED nonUpload
    \/ UpUpdate /\ UNCHANGED nonUpload
    \/ UpMovePublished /\ UNCHANGED nonUpload
    \/ UpMoveSd /\ UNCHANGED nonUpload
    \/ UpUpdateDefinition /\ UNCHANGED nonUpload
    \/ UpReturn /\ UNCHANGED nonUpload

InitUploadSpec ==
    /\ InitUploadVars /\ feature_service_items = <<>> /\ InitFixerVars
    /\ InitAuditIdle /\ InitBatchIdle /\ InitInfoIdle

SpecUpload == InitUploadSpec /\ [][NextUpload]_vars

NextInfo ==
    GetInfo /\ UNCHANGED <<feature_service_items, fixerVars, auditVars,
                           batchVars, upVars>>

InitInfoSpec ==
    /\ InitInfo /\ feature_service_items = <<>> /\ InitFixerVars
    /\ InitAuditIdle /\ InitBatchIdle /\ InitUploadVars

SpecInfo == InitInfoSpec /\ [][NextInfo]_vars

(***************************************************************************)
(* The tag fixer: properties.                                              *)
(***************************************************************************)
\* the title of the item a record of fxHist is about (titles never change)
TitleOf(h) == feature_service_items[h.idx].title

TitleHasUtah(t) == InList(STR_Utah, split(t))

FoldsToUtah(tag) == lower(strip(tag)) = STR_utah

\* C1: tag_fixer is idempotent: an item evaluated in the first run and
\* again in the second run, title and groups unchanged, gets the same tag
\* set the second time as the first, and the second run issues no write.
C1_TagFixerIdempotent ==
    \A a, b \in DOMAIN fxHist :
        (fxHist[a].run = 1 /\ fxHist[b].run = 2 /\ fxHist[a].idx = fxHist[b].idx)
            => /\ Range(fxHist[b].new) = Range(fxHist[a].new)
               /\ ~fxHist[b].write

\* C6: a failed item.update does not halt the run: after it the loop is
\* still going over the later items or the summary has been reported.
C6_UpdateFailureDoesNotHalt ==
    (\E i \in DOMAIN fxHist : ~fxHist[i].ok) => fxPc \in {"loop", "reported"}

\* C7: for an item whose title holds Utah as a word of its own, tag_fixer
\* keeps no tag that case-folds to utah, neither in its original spelling
\* nor rewritten to Utah (tags Utah, utah, Parks under the title Utah Parks
\* lose both spellings of Utah).
C7_NoUtahTagUnderUtahTitle ==
    \A i \in DOMAIN fxHist :
        TitleHasUtah(TitleOf(fxHist[i]))
            => \A t \in Range(fxHist[i].new) : ~FoldsToUtah(t)

(***************************************************************************)
(* The publishing batch: properties.                                       *)
(***************************************************************************)
BatchGoesOn == bPc \in {"loop", "done"}

\* C2: an unknown disposition makes get_info fail for that dataset only:
\* the error is caught at the per-dataset boundary and the loop goes on to
\* the later datasets.
C2_UnknownDispositionDoesNotAbort ==
    \A i \in DOMAIN bHist :
        bHist[i].gotInfo = "ValueError" => bHist[i].error = "none" /\ BatchGoesOn

\* C3: every dataset the loop takes gets exactly one row of the CSV log,
\* whatever became of it (a row that log_csv could not write for an
\* IOError aside).
C3_OneRowPerDataset ==
    \A i \in DOMAIN bHist : bHist[i].ioOk => Len(bHist[i].rows) = 1

\* C4: when create_service_definition has finished, by returning or by
\* raising, the saved map holds no layer and what it raises is the error
\* of the step that failed.
C4_TemplateCleanOriginalError ==
    \A i \in DOMAIN bHist :
        bHist[i].csdCalled =>
            /\ bHist[i].saved = <<>>
            /\ bHist[i].csdRaised = bHist[i].csdOriginal

\* C5: an execution error raised while a dataset is projected or staged is
\* caught by the loop, which logs the title with the error text, commas
\* made semicolons, and goes on to the next dataset.
C5_ExecuteErrorLoggedAndSkipped ==
    \A i \in DOMAIN bHist :
        (bHist[i].csdCalled /\ bHist[i].csdOriginal = "ExecuteError") =>
            /\ bHist[i].error = "none"
            /\ bHist[i].gotInfo = "none"
            /\ bHist[i].ioOk =>
                 bHist[i].rows =
                    << <<bHist[i].title, replace(bHist[i].message, ",", ";")>> >>

(***************************************************************************)
(* The tag index and the duplicate tags: properties.                       *)
(***************************************************************************)
\* the original spellings among keys that fold to the lower-cased key k
Spellings(keys, k) == { t \in keys : lower(t) = k }

NoRepeats(lst) == \A i, j \in DOMAIN lst : i # j => lst[i] # lst[j]

\* C8: duplicate_tags holds a key exactly when two or more distinct tags of
\* the index fold to it, and its value is those spellings, each once.
C8_DuplicateTags ==
    dupFrom # <<>> =>
        LET keys == Range(dupFrom[1])
        IN  /\ \A t \in keys :
                 HasKey(duplicate_tags, lower(t))
                    <=> Cardinality(Spellings(keys, lower(t))) >= 2
            /\ \A i \in DOMAIN duplicate_tags :
                 /\ Range(duplicate_tags[i].val) =
                        Spellings(keys, duplicate_tags[i].key)
                 /\ NoRepeats(duplicate_tags[i].val)
                 /\ Len(duplicate_tags[i].val) >= 2
            /\ NoRepeats(Keys(duplicate_tags))

\* scenario C: SGID and sgid are reported under sgid, Parks is not
C8_Witness ==
    /\ Range(Keys(tags_and_items)) = {STR_SGID, STR_sgid, STR_Parks}
    /\ duplicate_tags = <<[key |-> STR_sgid, val |-> <<STR_SGID, STR_sgid>>]>>

TagsOfItem(id) == account[id].item.tags

\* C9: after every call the index maps each tag to exactly the items of
\* the latest enumeration that carry it, each listed once.
C9_IndexRebuiltEachCall ==
    /\ \A i \in DOMAIN tags_and_items :
         /\ Range(tags_and_items[i].val) =
              { id \in Range(enumerated) :
                  InList(tags_and_items[i].key, TagsOfItem(id)) }
         /\ NoRepeats(tags_and_items[i].val)
    /\ \A id \in Range(enumerated) :
         \A t \in Range(TagsOfItem(id)) : HasKey(tags_and_items, t)

(***************************************************************************)
(* upload_layer: properties.                                               *)
(***************************************************************************)
\* the order of the remote steps the claim gives
ClaimedOrder(protect) ==
    <<"add", "publish", "share">> \o
    (IF protect THEN <<"protect">> ELSE <<>>) \o
    <<"update", "move_published", "move_sd", "update_definition">>

CallsMade == [i \in DOMAIN upCalls |-> upCalls[i].call]

\* C10: the remote calls that returned are a prefix of add, publish,
\* share, protect (only with protect), update, move of the published item,
\* move of the staging item, update_definition; the call made next is the
\* one that follows that prefix; the item id is returned only after all.
C10_UploadOrder ==
    LET order == ClaimedOrder(upProtect)
        n == Len(upCalls)
    IN  /\ n <= Len(order)
        /\ CallsMade = SubSeq(order, 1, n)
        /\ upPc \notin {"idle", "raised", "return", "returned"}
              => n < Len(order) /\ upPc = order[n + 1]
        /\ upPc \in {"return", "returned"} => n = Len(order)
        /\ upResult # <<>> => upPc = "returned"
        /\ \A i \in DOMAIN upCalls :
             /\ upCalls[i].call = "share"
                   => upCalls[i].args = <<"everyone", "org", upInfo.groups>>
             /\ upCalls[i].call \in {"move_published", "move_sd"}
                   => upCalls[i].args = <<upInfo.folder>>
             /\ upCalls[i].call = "update_definition"
                   => upCalls[i].args = <<"Query,Extract">>

\* a protected upload that ran to its end
C10_Witness ==
    /\ upResult # <<>>
    /\ upProtect
    /\ Len(upCalls) = Len(ClaimedOrder(TRUE))


(***************************************************************************)
(* get_info: properties.                                                   *)
(***************************************************************************)
\* the strings of  s  between the occurrences of  sep
RECURSIVE SplitAt(_, _)
SplitAt(s, sep) ==
    IF Len(s) < Len(sep) THEN <<s>>
    ELSE LET hits == { i \in 1..(Len(s) - Len(sep) + 1) :
                         SubSeq(s, i, i + Len(sep) - 1) = sep }
         IN  IF hits = {} THEN <<s>>
             ELSE LET i == CHOOSE h \in hits : \A g \in hits : h <= g
                  IN  <<SubSeq(s, 1, i - 1)>>
                        \o SplitAt(SubSeq(s, i + Len(sep), Len(s)), sep)

\* the tags of the string of tags get_info returned
InfoTags == SplitAt(infoResult.info.tags, STR_comma_blank)

\* the category of the three qualified names, written out
CategoryOf(fc_name) ==
    CASE fc_name = STR_fc_habitat -> <<"B", "i", "o", "s", "c", "i", "e", "n", "c", "e">>
      [] fc_name = STR_fc_roads -> <<"T", "r", "a", "n", "s", "p", "o", "r", "t", "a", "t", "i", "o", "n">>
      [] OTHER -> <<"W", "a", "t", "e", "r", "_", "Q", "u", "a", "l", "i", "t", "y">>

\* the metadata file holds a record for the dataset of the call
InfoHasMetadata ==
    /\ infoEntry # <<>>
    /\ LET segments == SplitOn(infoEntry.fc_name, ".")
       IN  infoLookup[1].key = segments[Len(segments)]

StartsWith(s, prefix) ==
    Len(s) >= Len(prefix) /\ SubSeq(s, 1, Len(prefix)) = prefix

\* C11: for a dataset of disposition 'static' that has a metadata record,
\* get_info returns; the tags it returns contain the category (the
\* second-to-last segment of the qualified name, title-cased), 'SGID' and
\* 'static'; the description starts with the static disclaimer; the only
\* group and the folder are both 'Utah SGID <Category>'.
C11_StaticInfo ==
    (infoPc # "call" /\ InfoHasMetadata /\ infoEntry.disposition = STR_static)
    => /\ infoPc = "returned"
       /\ LET category == CategoryOf(infoEntry.fc_name)
              place == STR_Utah_SGID \o STR_blank \o category
          IN  /\ InList(category, InfoTags)
              /\ InList(STR_SGID, InfoTags)
              /\ InList(STR_static, InfoTags)
              /\ StartsWith(infoResult.info.description, static_disclaimer)
              /\ infoResult.info.groups = <<place>>
              /\ infoResult.info.folder = place

\* get_info has returned for a static dataset whose metadata has tags
C11_Witness ==
    /\ infoPc = "returned"
    /\ infoEntry.disposition = STR_static
    /\ infoLookup[1].val.tags = STR_roads_tags
    /\ infoEntry.fc_name = STR_fc_roads

\* C12: for a dataset of disposition 'shelved' that has a metadata record,
\* get_info returns folder 'AGRC_Shelved' and groups ['AGRC Shelf']; the
\* tags contain 'AGRC' and 'SGID' and end with 'shelved'; when the metadata
\* has no tags and no license the string of tags is 'AGRC, SGID, shelved'
\* and terms_of_use is the generic license.
C12_ShelvedInfo ==
    (infoPc # "call" /\ InfoHasMetadata /\ infoEntry.disposition = STR_shelved)
    => /\ infoPc = "returned"
       /\ infoResult.info.folder = STR_AGRC_Shelved
       /\ infoResult.info.groups = <<STR_AGRC_Shelf>>
       /\ InList(STR_AGRC, InfoTags)
       /\ InList(STR_SGID, InfoTags)
       /\ InfoTags[Len(InfoTags)] = STR_shelved
       /\ (infoLookup[1].val.tags = <<>> /\ infoLookup[1].val.licenseInfo = <<>>)
            => /\ infoResult.info.tags = <<"A", "G", "R", "C", ",", " ", "S", "G", "I", "D", ",", " ", "s", "h", "e", "l", "v", "e", "d">>
               /\ infoResult.info.terms_of_use = generic_terms_of_use

\* get_info has returned for a shelved dataset whose metadata has neither
\* tags nor license
C12_Witness ==
    /\ infoPc = "returned"
    /\ infoEntry.disposition = STR_shelved
    /\ infoLookup[1].val.tags = <<>>
    /\ infoLookup[1].val.licenseInfo = <<>>


(***************************************************************************)
(* The tag fixer: group lookup, writes, categories, shape of the tags.     *)
(***************************************************************************)
\* the item a record of fxHist is about
ItemOf(h) == feature_service_items[h.idx]

\* C13: when reading the sharing groups of an item fails, the title of the
\* item is in failed_group_items of that run, and the tags computed for it
\* are those of the strip / acronym / Utah / drop rules alone: no group adds
\* a category or 'SGID', whether or not some groups were read before the
\* failure.
C13_GroupFailureSkipsCategories ==
    \A k \in DOMAIN fxHist :
        LET h == fxHist[k]
        IN  GroupLookupFailed(ItemOf(h))
            => /\ h.run = fxRun => InList(TitleOf(h), failed_group_items)
               /\ h.new = EvaluateTags(h.old, TitleOf(h))


\* the two lists hold the same tags as often, in whatever order
SameTags(a, b) ==
    \A x \in Range(a) \cup Range(b) : Count(x, a) = Count(x, b)

\* the records of the items for which the given run issued a write
Written(run) ==
    { k \in DOMAIN fxHist : fxHist[k].run = run /\ fxHist[k].write }

\* the record of the same item in the run before, if any
Earlier(k) ==
    { j \in DOMAIN fxHist : /\ fxHist[j].idx = fxHist[k].idx
                            /\ fxHist[j].run + 1 = fxHist[k].run }

\* C14: a write is issued for an item exactly when the recomputed tags
\* differ from the tags the item had, compared without regard to order; an
\* item that was not written keeps its tags; the count of updated items
\* that is reported is the number of items written in the run and is at
\* most the number of items.
C14_WriteIffChanged ==
    /\ \A k \in DOMAIN fxHist :
          /\ fxHist[k].write <=> ~SameTags(fxHist[k].old, fxHist[k].new)
          /\ \A j \in Earlier(k) :
                ~fxHist[j].write => fxHist[k].old = fxHist[j].old
    /\ fxPc = "loop" => fxUpdated = Cardinality(Written(fxRun))
    /\ fxPc = "reported"
         => /\ fxSummary[1].updated = Cardinality(Written(fxRun))
            /\ fxSummary[1].updated <= fxSummary[1].total

\* a run that wrote one item and left another alone has reported
C14_Witness ==
    /\ fxPc = "reported"
    /\ Written(fxRun) # {}
    /\ \E k \in DOMAIN fxHist : fxHist[k].run = fxRun /\ ~fxHist[k].write
    /\ fxSummary[1].updated = 1


\* the category a sharing group stands for: its name minus the marker
CategoryFrom(group) == SplitLast(group, STR_Utah_SGID)

\* the sharing groups of an item that carry the marker
MarkedGroups(item) ==
    { item.groups[g] : g \in { n \in DOMAIN item.groups :
                                 InStr(STR_Utah_SGID, item.groups[n]) } }

\* C15: for an item whose group lookup succeeds, the tags computed hold the
\* category of every sharing group named with the marker 'Utah SGID', hold
\* no lower-case spelling of that category beside it, and hold 'SGID'.
C15_CategoryAndProgramTag ==
    \A k \in DOMAIN fxHist :
        LET h == fxHist[k]
        IN  ~GroupLookupFailed(ItemOf(h))
            => \A group \in MarkedGroups(ItemOf(h)) :
                  /\ InList(CategoryFrom(group), h.new)
                  /\ InList(STR_SGID, h.new)
                  /\ \A i \in DOMAIN h.new :
                        h.new[i] # CategoryFrom(group)
                        => strip(h.new[i]) # lower(strip(CategoryFrom(group)))

\* C16: no tag of the list computed for an item begins or ends with
\* whitespace, the categories taken from sharing-group names included.
C16_NoSurroundingWhitespace ==
    \A k \in DOMAIN fxHist :
        \A i \in DOMAIN fxHist[k].new :
            strip(fxHist[k].new[i]) = fxHist[k].new[i]

\* C17: the list of tags computed for an item holds no string twice, even
\* when the tags of the item hold several spellings of one tag.
C17_NoTagTwice ==
    \A k \in DOMAIN fxHist :
        \A i, j \in DOMAIN fxHist[k].new :
            i # j => fxHist[k].new[i] # fxHist[k].new[j]


(***************************************************************************)
(* The batch loop: where the rows of the CSV log come from.                *)
(***************************************************************************)
\* C18: every row the loop writes to the CSV log while it processes a
\* dataset begins with the title of that dataset, and the loop never reads
\* log_entry before it was assigned.
C18_RowsOfCurrentDataset ==
    \A i \in DOMAIN bHist :
        /\ \A r \in DOMAIN bHist[i].rows :
              bHist[i].rows[r][1] = bHist[i].title
        /\ bHist[i].error # "NameError"

=============================================================================
